---- MODULE Spec2Model ----
(***************************************************************************)
(* A model of the English-word lookup tool: the App component (search,     *)
(* history, saved words, pronunciation playback) and the geminiService     *)
(* adapter (getWordInfo, getPronunciationAudio).                           *)
(*                                                                         *)
(* The repository holds several snapshots of the same two files.  The      *)
(* model keeps them apart with two build parameters fixed at start-up:     *)
(*   ui  = "P1a"  src/unnamed/part_001 lines 1-499   (saved words)         *)
(*         "P1b"  src/unnamed/part_001 lines 502-809                       *)
(*         "P2"   src/unnamed/part_002                                     *)
(*         "P3"   src/unnamed/part_003                                     *)
(*   svc = "GA"   src/geminiService.ts lines 1-120                         *)
(*         "GB"   src/geminiService.ts lines 123-245                       *)
(*         "GC"   src/unnamed/part_000                                     *)
(*                                                                         *)
(* Text is a sequence of characters, each a one-character string (the      *)
(* backquote is written BT); a word is such a text.                        *)
(***************************************************************************)
EXTENDS Integers, Sequences, FiniteSets, TLC

VARIABLES
    ui,          \* which App snapshot runs
    svc,         \* which geminiService snapshot runs
    query,       \* useState query
    result,      \* useState result: None or Some(WordDefinition)
    loading,     \* useState loading
    error,       \* useState error (Null or a message)
    history,     \* useState history: sequence of [word, timestamp]
    savedWords,  \* useState savedWords: sequence of SavedWordEntry
    noteInput,   \* useState noteInput
    proficiency, \* useState proficiency
    saveMessage, \* useState saveMessage
    isPlaying,   \* useState isPlaying
    online,      \* navigator.onLine
    lookups,     \* getWordInfo calls awaiting the backend, with their closures
    audio,       \* position of the playAudio continuation
    clock,       \* the last value Date.now() returned
    stHistory,   \* localStorage entry of the history key
    stSaved,     \* localStorage entry of the saved-words key
    lk,          \* input and outputs of the stand-alone runs of the service
    script       \* the words the backend is going to return, when scripted

vars == <<ui, svc, query, result, loading, error, history, savedWords,
          noteInput, proficiency, saveMessage, isPlaying, online, lookups,
          audio, clock, stHistory, stSaved, lk, script>>

Null == "null"

(***************************************************************************)
(* Bounds of the model.                                                    *)
(***************************************************************************)
\* Date.now() ranges over 1..MaxTime.
MaxTime == 2
\* At most this many getWordInfo calls are kept in flight.
MaxInFlight == 2
\* The scripted runs make this many lookups, each of them one tick later.
MaxLookups == 12
\* decodeAudioData is run on up to this many 16-bit samples.
MaxSamples == 4

(***************************************************************************)
(* Characters and text.                                                    *)
(***************************************************************************)
UpperChars == <<"A", "B", "C", "D", "E", "F", "G", "H", "I", "J", "K", "L", "M", "N">>
LowerChars == <<"a", "b", "c", "d", "e", "f", "g", "h", "i", "j", "k", "l", "m", "n">>

\* String.prototype.toLowerCase on one character.
LowerChar(c) ==
    IF \E i \in 1..Len(UpperChars) : UpperChars[i] = c
    THEN LowerChars[CHOOSE i \in 1..Len(UpperChars) : UpperChars[i] = c]
    ELSE c

\* String.prototype.toLowerCase.
ToLowerCase(s) == [i \in 1..Len(s) |-> LowerChar(s[i])]

IsSpace(c) == c \in {" ", "\n"}

RECURSIVE TrimStart(_)
TrimStart(s) ==
    IF s # <<>> /\ IsSpace(Head(s)) THEN TrimStart(Tail(s)) ELSE s

RECURSIVE TrimEnd(_)
TrimEnd(s) ==
    IF s # <<>> /\ IsSpace(s[Len(s)])
    THEN TrimEnd(SubSeq(s, 1, Len(s) - 1))
    ELSE s

\* String.prototype.trim.
Trim(s) == TrimEnd(TrimStart(s))

StartsWith(s, p) == Len(s) >= Len(p) /\ SubSeq(s, 1, Len(p)) = p

EndsWith(s, p) ==
    Len(s) >= Len(p) /\ SubSeq(s, Len(s) - Len(p) + 1, Len(s)) = p

Drop(s, n) == SubSeq(s, n + 1, Len(s))

DropLast(s, n) == SubSeq(s, 1, Len(s) - n)

\* s.replace(/p/g, ""): every match of the literal p, scanning left to right.
RECURSIVE RemoveAll(_, _)
RemoveAll(s, p) ==
    IF s = <<>> THEN <<>>
    ELSE IF StartsWith(s, p) THEN RemoveAll(Drop(s, Len(p)), p)
    ELSE <<Head(s)>> \o RemoveAll(Tail(s), p)

\* The backquote character (SANY has no string literal for it).
BT == "backquote"

Fence == <<BT, BT, BT>>
FenceJson == Fence \o <<"j", "s", "o", "n">>


(***************************************************************************)
(* The backend and geminiService.getWordInfo.                              *)
(*                                                                         *)
(* A backend answer either rejects with a message, or resolves with a      *)
(* response whose text may be absent.  The JSON texts the model feeds are  *)
(* objects with the one key "word"; ParseJSON is JSON.parse on those       *)
(* texts and on the malformed texts built around them.                     *)
(***************************************************************************)
None == <<>>
Some(x) == <<x>>

QUOTE == "\""
JsonOpen == <<"{", QUOTE, "w", "o", "r", "d", QUOTE, ":", QUOTE>>
JsonClose == <<QUOTE, "}">>

\* The JSON text of the object {"word": w}.
JsonBody(w) == JsonOpen \o w \o JsonClose

NoData == [word |-> <<>>]

\* JSON.parse: leading and trailing white space is skipped, the rest must
\* be one object {"word":"..."} whose string holds no quote and no raw
\* line break.
ParseJSON(t) ==
    LET s == Trim(t)
        n == Len(s) - Len(JsonOpen) - Len(JsonClose)
        content == SubSeq(s, Len(JsonOpen) + 1, Len(JsonOpen) + n)
    IN  IF /\ n >= 0
           /\ StartsWith(s, JsonOpen)
           /\ EndsWith(s, JsonClose)
           /\ \A i \in 1..n : content[i] \notin {QUOTE, "\n"}
        THEN [ok |-> TRUE, data |-> [word |-> content]]
        ELSE [ok |-> FALSE, data |-> NoData]

Reject(m) == [rejected |-> TRUE, message |-> m, hasText |-> FALSE, text |-> <<>>]
NoText == [rejected |-> FALSE, message |-> "", hasText |-> FALSE, text |-> <<>>]
TextResponse(t) == [rejected |-> FALSE, message |-> "", hasText |-> TRUE, text |-> t]

MsgFetch == "TypeError: Failed to fetch"
MsgUnauthorized == "401 API_KEY invalid"
MsgSyntax == "SyntaxError: Unexpected token"
MsgNetworkKo == "network unstable, check the connection (ko)"
MsgEmptyKo == "no AI response data (ko)"
MsgEmptyEn == "Empty response from AI"
MsgInvalidFormat == "Invalid response format"

\* error.message?.includes('fetch') on the messages of the model.
IncludesFetch(m) == m = MsgFetch

Ok(d) == [ok |-> TRUE, data |-> d, message |-> ""]
Fail(m) == [ok |-> FALSE, data |-> NoData, message |-> m]

\* !text: undefined and "" are both falsy.
TextMissing(resp) == ~resp.hasText \/ resp.text = <<>>

\* text.replace(/```json/g, "").replace(/```/g, "").trim()
CleanGA(text) == Trim(RemoveAll(RemoveAll(text, FenceJson), Fence))

\* text.replace(/^```json\n?/, '')
StripLeadC(text) ==
    IF StartsWith(text, FenceJson \o <<"\n">>) THEN Drop(text, Len(FenceJson) + 1)
    ELSE IF StartsWith(text, FenceJson) THEN Drop(text, Len(FenceJson))
    ELSE text

\* text.replace(/\n?```$/, ''): $ is the end of the input (no m flag).
StripTailC(text) ==
    IF EndsWith(text, <<"\n">> \o Fence) THEN DropLast(text, Len(Fence) + 1)
    ELSE IF EndsWith(text, Fence) THEN DropLast(text, Len(Fence))
    ELSE text

CleanGC(text) == Trim(StripTailC(StripLeadC(text)))

\* The catch block of the first getWordInfo of geminiService.ts.
RethrowGA(m) == IF IncludesFetch(m) THEN Fail(MsgNetworkKo) ELSE Fail(m)

\* A getWordInfo that answers a missing text with an empty object (C8 fails
\* with it).
getWordInfoGAEmptyObject(resp) ==
    IF resp.rejected THEN RethrowGA(resp.message)
    ELSE IF TextMissing(resp) THEN Ok(NoData)
    ELSE LET p == ParseJSON(CleanGA(resp.text))
         IN  IF p.ok THEN Ok(p.data) ELSE RethrowGA(MsgSyntax)
getWordInfoGA(resp) ==
    IF resp.rejected THEN RethrowGA(resp.message)
    ELSE IF TextMissing(resp) THEN RethrowGA(MsgEmptyKo)
    ELSE LET p == ParseJSON(CleanGA(resp.text))
         IN  IF p.ok THEN Ok(p.data) ELSE RethrowGA(MsgSyntax)

\* JSON.parse(response.text): an undefined text is parsed as "undefined".
getWordInfoGB(resp) ==
    IF resp.rejected THEN Fail(resp.message)
    ELSE IF ~resp.hasText THEN Fail(MsgSyntax)
    ELSE LET p == ParseJSON(resp.text)
         IN  IF p.ok THEN Ok(p.data) ELSE Fail(MsgSyntax)

getWordInfoGC(resp) ==
    IF resp.rejected THEN Fail(resp.message)
    ELSE IF TextMissing(resp) THEN Fail(MsgEmptyEn)
    ELSE LET p == ParseJSON(CleanGC(resp.text))
         IN  IF p.ok THEN Ok(p.data) ELSE Fail(MsgInvalidFormat)

getWordInfo(s, resp) ==
    CASE s = "GA" -> getWordInfoGA(resp)
      [] s = "GB" -> getWordInfoGB(resp)
      [] s = "GC" -> getWordInfoGC(resp)


(***************************************************************************)
(* The App component: values.                                              *)
(***************************************************************************)
UIs == {"P1a", "P1b", "P2", "P3"}
Svcs == {"GA", "GB", "GC"}

\* The words the backend returns.
Words == {<<"c">>, <<"C">>, <<"d">>}
\* What the user types into the search box.
TypedQueries == {<<>>, <<" ", "c">>}
\* What the user types into the note box.
NoteDrafts == {<<>>, <<" ", "x">>}
ProficiencyLevels == {"new", "learning", "mastered"}

\* The answers of the text backend.
Responses ==
    {Reject(MsgFetch), NoText, TextResponse(<<>>)}
    \cup {TextResponse(JsonBody(w)) : w \in Words}
    \cup {TextResponse(FenceJson \o <<"\n">> \o JsonBody(<<"c">>) \o <<"\n">> \o Fence),
          TextResponse(<<"o", "k", " ">> \o JsonBody(<<"d">>))}

MsgOffline == "offline, check the network (ko)"
MsgGenericP1 == "lookup failed, try again later (ko)"
MsgGenericP2 == "lookup failed, try again (ko)"
MsgGenericP3 == "lookup failed (ko)"
MsgApiKeyP3 == "system error: API key (ko)"
MsgQuota == "QuotaExceededError"
MsgSaved == "word list updated (ko)"

\* The text set by the catch block of handleSearch.
ErrorText(u, m) ==
    CASE u \in {"P1a", "P1b"} -> IF m # "" THEN m ELSE MsgGenericP1
      [] u = "P2" -> MsgGenericP2
      [] u = "P3" -> IF m = MsgUnauthorized THEN MsgApiKeyP3 ELSE MsgGenericP3

\* .slice(0, 10)
HistoryLimit == 10

Take(s, n) == SubSeq(s, 1, IF Len(s) < n THEN Len(s) ELSE n)

\* h.word.toLowerCase() !== word.toLowerCase(), and h.word !== word in part_002.
SameHistoryWord(u, a, b) ==
    IF u = "P2" THEN a = b ELSE ToLowerCase(a) = ToLowerCase(b)

\* A saveToHistory that never cuts the list (C3 fails with it).
NewHistoryUncut(u, hist, word, t) ==
    <<[word |-> word, timestamp |-> t]>>
      \o SelectSeq(hist, LAMBDA h : ~SameHistoryWord(u, h.word, word))
\* newHistory of saveToHistory.
NewHistory(u, hist, word, t) ==
    Take(<<[word |-> word, timestamp |-> t]>>
           \o SelectSeq(hist, LAMBDA h : ~SameHistoryWord(u, h.word, word)),
         HistoryLimit)

\* A comparison of saved words that looks at the letter case (C6 fails with
\* it).
SameSavedWordExact(a, b) == a = b
\* entry.word.toLowerCase() === w.toLowerCase()
SameSavedWord(a, b) == ToLowerCase(a) = ToLowerCase(b)

HasSaved(saved, w) == \E i \in 1..Len(saved) : SameSavedWord(saved[i].word, w)

\* savedWords.find(entry => entry.word.toLowerCase() === w.toLowerCase())
FindSaved(saved, w) ==
    saved[CHOOSE i \in 1..Len(saved) :
            /\ SameSavedWord(saved[i].word, w)
            /\ \A j \in 1..(i - 1) : ~SameSavedWord(saved[j].word, w)]

WithoutSaved(saved, w) ==
    SelectSeq(saved, LAMBDA e : ~SameSavedWord(e.word, w))

\* The effect on [result, savedWords]: the drafts follow the saved entry.
SyncedNote(res, saved) ==
    IF res # None /\ HasSaved(saved, res[1].word)
    THEN FindSaved(saved, res[1].word).note
    ELSE <<>>

SyncedProficiency(res, saved) ==
    IF res # None /\ HasSaved(saved, res[1].word)
    THEN FindSaved(saved, res[1].word).proficiency
    ELSE "new"

\* Date.now(): no earlier than the last reading.
Now == {t \in clock..(clock + 1) : t <= MaxTime}

\* The visible, enabled controls of each snapshot.
SubmitEnabled ==
    IF ui = "P2" THEN ~loading ELSE ~loading /\ Trim(query) # <<>>

\* A history list that stays clickable during a lookup (C1 fails with it).
HistoryPanelAlways == Len(history) > 0
HistoryPanelVisible ==
    CASE ui = "P1a" -> ~loading
      [] ui \in {"P1b", "P3"} -> result = None /\ ~loading /\ error = Null
      [] ui = "P2" -> result = None /\ ~loading /\ Len(history) > 0

SavedPanelVisible == ui = "P1a" /\ ~loading

ResultVisible == result # None

\* A handleSearch without the connectivity check (C16 fails with it).
ChecksOnlineNever == FALSE
\* if (!navigator.onLine) in handleSearch of part_001.
ChecksOnline == ui \in {"P1a", "P1b"}


(***************************************************************************)
(* The App component: handlers.                                            *)
(***************************************************************************)
\* The effect of lines 46-58 runs after a handler set result or savedWords.
DraftsFollow(res, saved) ==
    IF ui = "P1a"
    THEN /\ noteInput' = SyncedNote(res, saved)
         /\ proficiency' = SyncedProficiency(res, saved)
    ELSE UNCHANGED <<noteInput, proficiency>>

\* A handleSearch that leaves the displayed result alone (C2 fails with it).
ResultKept == result
\* setResult(null) before the request is issued.
ResultWhileLoading == None

\* handleSearch up to its await.  searchWord is <<>> when the argument is
\* undefined.  A call that reaches getWordInfo is queued with the history
\* its closure holds; shown and saved record what was displayed and saved
\* when it was issued (no code reads them).
HandleSearch(searchWord) ==
    LET raw == IF searchWord # <<>> THEN searchWord ELSE query
        targetWord == Trim(raw)
    IN  IF targetWord = <<>>
        THEN UNCHANGED <<result, loading, error, lookups, noteInput, proficiency>>
        ELSE IF ChecksOnline /\ ~online
        THEN /\ error' = MsgOffline
             /\ UNCHANGED <<result, loading, lookups, noteInput, proficiency>>
        ELSE /\ Len(lookups) < MaxInFlight
             /\ loading' = TRUE
             /\ error' = Null
             /\ result' = ResultWhileLoading
             /\ lookups' = Append(lookups,
                    [word |-> IF ui = "P2" THEN raw ELSE targetWord,
                     history |-> history,
                     shown |-> result,
                     saved |-> savedWords])
             /\ DraftsFollow(ResultWhileLoading, savedWords)

SearchFrame ==
    UNCHANGED <<ui, svc, history, savedWords, saveMessage, isPlaying, online,
                audio, clock, stHistory, stSaved, lk, script>>

\* onChange of the search box, and its clear button.
SetQuery(q) ==
    /\ query' = q
    /\ UNCHANGED <<ui, svc, result, loading, error, history, savedWords,
                   noteInput, proficiency, saveMessage, isPlaying, online,
                   lookups, audio, clock, stHistory, stSaved, lk, script>>

\* onSubmit of the search form.
SubmitForm ==
    /\ SubmitEnabled
    /\ HandleSearch(<<>>)
    /\ UNCHANGED query
    /\ SearchFrame

\* A click on an entry of the recent-searches panel.
HistoryClick(i) ==
    /\ HistoryPanelVisible
    /\ i \in 1..Len(history)
    /\ query' = history[i].word
    /\ HandleSearch(history[i].word)
    /\ SearchFrame

\* A click on an entry of the word list; view tells the "view now" button,
\* which leaves the search box alone.
SavedClick(i, view) ==
    /\ SavedPanelVisible
    /\ i \in 1..Len(savedWords)
    /\ query' = IF view THEN query ELSE savedWords[i].word
    /\ HandleSearch(savedWords[i].word)
    /\ SearchFrame

\* A click on a synonym or antonym of the displayed result (part_002); the
\* backend chooses these words.
RelatedWordClick(w) ==
    /\ ui = "P2"
    /\ ResultVisible
    /\ query' = w
    /\ HandleSearch(w)
    /\ SearchFrame

\* A call that stays pending when it is answered (C14 fails with it).
RemoveNone(s, i) == s
RemoveAt(s, i) == SubSeq(s, 1, i - 1) \o SubSeq(s, i + 1, Len(s))

\* localStorage.setItem throws outside the try block of saveToHistory.
HistoryWriteThrows(storageOk) == ~storageOk /\ ui # "P1a"

\* A handleSearch that records the word it asked for (C29 fails with it).
HistoryWordAsked(req, data) == req.word
\* saveToHistory(data.word)
HistoryWord(req, data) == data.word

\* A setLoading(false) that is the last statement of the try block only
\* (C24 fails with it).
LoadingAfterTry(completed) == ~completed
\* finally { setLoading(false) }
LoadingAfter(completed) == FALSE

\* handleSearch from the answer of the backend on: the i-th call in flight
\* gets the answer resp; storageOk tells whether localStorage.setItem works
\* and t is what Date.now() returns.
ResolveLookup(i, resp, storageOk, t) ==
    /\ i \in 1..Len(lookups)
    /\ t >= clock
    /\ LET req == lookups[i]
           out == getWordInfo(svc, resp)
       IN  /\ lookups' = RemoveAt(lookups, i)
           /\ loading' = LoadingAfter(out.ok /\ ~HistoryWriteThrows(storageOk))
           /\ IF out.ok
              THEN LET newHistory == NewHistory(ui, req.history,
                                                 HistoryWord(req, out.data), t)
                   IN  /\ clock' = t
                       /\ result' = Some(out.data)
                       /\ history' = newHistory
                       /\ stHistory' = IF storageOk THEN Some(newHistory) ELSE stHistory
                       /\ error' = IF HistoryWriteThrows(storageOk)
                                   THEN ErrorText(ui, MsgQuota)
                                   ELSE error
                       /\ DraftsFollow(Some(out.data), savedWords)
              ELSE /\ error' = ErrorText(ui, out.message)
                   /\ UNCHANGED <<result, history, stHistory, clock, noteInput,
                                  proficiency>>
    /\ UNCHANGED <<ui, svc, query, savedWords, saveMessage, isPlaying, online,
                   audio, stSaved, lk, script>>

\* A playAudio without the isPlaying check (C13 fails with it).
PlayAudioUngated ==
    /\ ResultVisible
    /\ Len(audio) < MaxInFlight
    /\ isPlaying' = TRUE
    /\ audio' = Append(audio, [st |-> "synth", word |-> result[1].word])
    /\ UNCHANGED <<ui, svc, query, result, loading, error, history, savedWords,
                   noteInput, proficiency, saveMessage, online, lookups, clock,
                   stHistory, stSaved, lk, script>>
\* playAudio up to its await.
PlayAudio ==
    /\ ResultVisible
    /\ ui = "P2" \/ ~isPlaying
    /\ IF isPlaying
       THEN UNCHANGED <<isPlaying, audio>>
       ELSE /\ Len(audio) < MaxInFlight
            /\ isPlaying' = TRUE
            /\ audio' = Append(audio, [st |-> "synth", word |-> result[1].word])
    /\ UNCHANGED <<ui, svc, query, result, loading, error, history, savedWords,
                   noteInput, proficiency, saveMessage, online, lookups, clock,
                   stHistory, stSaved, lk, script>>

\* playAudio from the answer of the audio backend on: the source is started,
\* or the catch block clears isPlaying.
ResolveAudio(i, ok) ==
    /\ i \in 1..Len(audio)
    /\ audio[i].st = "synth"
    /\ IF ok
       THEN /\ audio' = [audio EXCEPT ![i].st = "playing"]
            /\ UNCHANGED isPlaying
       ELSE /\ audio' = RemoveAt(audio, i)
            /\ isPlaying' = FALSE
    /\ UNCHANGED <<ui, svc, query, result, loading, error, history, savedWords,
                   noteInput, proficiency, saveMessage, online, lookups, clock,
                   stHistory, stSaved, lk, script>>

\* A source whose end leaves the flag alone (C22 fails with it).
PlaybackEndedSilent(i) ==
    /\ i \in 1..Len(audio)
    /\ audio[i].st = "playing"
    /\ audio' = RemoveAt(audio, i)
    /\ UNCHANGED <<ui, svc, query, result, loading, error, history, savedWords,
                   noteInput, proficiency, saveMessage, isPlaying, online,
                   lookups, clock, stHistory, stSaved, lk, script>>
\* source.onended
PlaybackEnded(i) ==
    /\ i \in 1..Len(audio)
    /\ audio[i].st = "playing"
    /\ audio' = RemoveAt(audio, i)
    /\ isPlaying' = FALSE
    /\ UNCHANGED <<ui, svc, query, result, loading, error, history, savedWords,
                   noteInput, proficiency, saveMessage, online, lookups, clock,
                   stHistory, stSaved, lk, script>>

\* onChange of the note box.
SetNoteInput(n) ==
    /\ ui = "P1a"
    /\ ResultVisible
    /\ noteInput' = n
    /\ UNCHANGED <<ui, svc, query, result, loading, error, history, savedWords,
                   proficiency, saveMessage, isPlaying, online, lookups, audio,
                   clock, stHistory, stSaved, lk, script>>

\* A click on a proficiency button.
SetProficiency(p) ==
    /\ ui = "P1a"
    /\ ResultVisible
    /\ proficiency' = p
    /\ UNCHANGED <<ui, svc, query, result, loading, error, history, savedWords,
                   noteInput, saveMessage, isPlaying, online, lookups, audio,
                   clock, stHistory, stSaved, lk, script>>

\* A save that always stamps the record anew (C5 fails with it).
SavedAtNow(saved, w, t) == t
\* savedAt: existing?.savedAt || Date.now()
SavedAt(saved, w, t) ==
    IF HasSaved(saved, w) /\ FindSaved(saved, w).savedAt # 0
    THEN FindSaved(saved, w).savedAt
    ELSE t

\* updatedEntry of handleSaveWord.
UpdatedEntry(res, saved, note, prof, t) ==
    [word |-> res.word,
     definition |-> res,
     note |-> Trim(note),
     proficiency |-> prof,
     savedAt |-> SavedAt(saved, res.word, t)]

\* A save that forgets the other records (C7 fails with it).
UpdatedSavedAlone(res, saved, note, prof, t) ==
    <<UpdatedEntry(res, saved, note, prof, t)>>
\* updated of handleSaveWord.
UpdatedSaved(res, saved, note, prof, t) ==
    <<UpdatedEntry(res, saved, note, prof, t)>> \o WithoutSaved(saved, res.word)

\* persistSavedWords, with the effect that follows setSavedWords.
PersistSavedWords(entries, storageOk) ==
    /\ savedWords' = entries
    /\ stSaved' = IF storageOk THEN Some(entries) ELSE stSaved
    /\ DraftsFollow(result, entries)

\* handleSaveWord
HandleSaveWord(storageOk) ==
    /\ ui = "P1a"
    /\ ResultVisible
    /\ \E t \in Now :
         /\ clock' = IF HasSaved(savedWords, result[1].word)
                        /\ FindSaved(savedWords, result[1].word).savedAt # 0
                     THEN clock ELSE t
         /\ PersistSavedWords(
                UpdatedSaved(result[1], savedWords, noteInput, proficiency, t),
                storageOk)
    /\ saveMessage' = MsgSaved
    /\ UNCHANGED <<ui, svc, query, result, loading, error, history, isPlaying,
                   online, lookups, audio, stHistory, lk, script>>

\* The timer of handleSaveWord.
SaveMessageTimeout ==
    /\ saveMessage # Null
    /\ saveMessage' = Null
    /\ UNCHANGED <<ui, svc, query, result, loading, error, history, savedWords,
                   noteInput, proficiency, isPlaying, online, lookups, audio,
                   clock, stHistory, stSaved, lk, script>>

\* removeSavedWord, from the delete button of the i-th entry.
RemoveSavedWord(i, storageOk) ==
    /\ SavedPanelVisible
    /\ i \in 1..Len(savedWords)
    /\ PersistSavedWords(WithoutSaved(savedWords, savedWords[i].word), storageOk)
    /\ UNCHANGED <<ui, svc, query, result, loading, error, history, saveMessage,
                   isPlaying, online, lookups, audio, clock, stHistory, lk, script>>

\* clearHistory (part_002)
ClearHistory ==
    /\ ui = "P2"
    /\ HistoryPanelVisible
    /\ history' = <<>>
    /\ stHistory' = None
    /\ UNCHANGED <<ui, svc, query, result, loading, error, savedWords, noteInput,
                   proficiency, saveMessage, isPlaying, online, lookups, audio,
                   clock, stSaved, lk, script>>

\* The close button of the error box (part_002).
DismissError ==
    /\ ui = "P2"
    /\ error # Null
    /\ error' = Null
    /\ UNCHANGED <<ui, svc, query, result, loading, history, savedWords,
                   noteInput, proficiency, saveMessage, isPlaying, online,
                   lookups, audio, clock, stHistory, stSaved, lk, script>>

\* The browser goes online or offline.
SetOnline(b) ==
    /\ ChecksOnline
    /\ online # b
    /\ online' = b
    /\ UNCHANGED <<ui, svc, query, result, loading, error, history, savedWords,
                   noteInput, proficiency, saveMessage, isPlaying, lookups,
                   audio, clock, stHistory, stSaved, lk, script>>

(***************************************************************************)
(* Start-up: the mount effect loads the stored lists.                      *)
(***************************************************************************)
StoredHistories == {None, Some(<<[word |-> <<"d">>, timestamp |-> 1]>>)}

StoredSaved ==
    {None,
     Some(<<[word |-> <<"d">>, definition |-> [word |-> <<"d">>],
             note |-> <<"x">>, proficiency |-> "learning", savedAt |-> 1]>>)}

\* if (saved) setX(JSON.parse(saved))
Loaded(stored) == IF stored = None THEN <<>> ELSE stored[1]

LkIdle ==
    [pc |-> "off", kind |-> "bare", text |-> <<>>, plain |-> <<>>,
     out |-> Fail(""), ref |-> Fail("")]

\* The application after start-up.
InitApp ==
    /\ ui \in UIs
    /\ svc \in Svcs
    /\ query = <<>>
    /\ result = None
    /\ loading = FALSE
    /\ error = Null
    /\ stHistory \in StoredHistories
    /\ history = Loaded(stHistory)
    /\ stSaved \in (IF ui = "P1a" THEN StoredSaved ELSE {None})
    /\ savedWords = Loaded(stSaved)
    /\ noteInput = <<>>
    /\ proficiency = "new"
    /\ saveMessage = Null
    /\ isPlaying = FALSE
    /\ online \in (IF ui \in {"P1a", "P1b"} THEN BOOLEAN ELSE {TRUE})
    /\ lookups = <<>>
    /\ audio = <<>>
    /\ clock = 1

Init ==
    /\ InitApp
    /\ lk = LkIdle
    /\ script = <<>>

(***************************************************************************)
(* Spec: searching and the history, in every snapshot.  The word list is   *)
(* what start-up loaded; nobody edits it or plays audio, and the storage    *)
(* takes every write.                                                      *)
(***************************************************************************)
Next ==
    \/ \E q \in TypedQueries : SetQuery(q)
    \/ SubmitForm
    \/ \E i \in 1..Len(history) : HistoryClick(i)
    \/ \E i \in 1..Len(savedWords), view \in BOOLEAN : SavedClick(i, view)
    \/ \E w \in Words : RelatedWordClick(w)
    \/ \E i \in 1..Len(lookups), resp \in Responses, t \in Now :
           ResolveLookup(i, resp, TRUE, t)
    \/ ClearHistory
    \/ DismissError
    \/ \E b \in BOOLEAN : SetOnline(b)

Spec == Init /\ [][Next]_vars

(***************************************************************************)
(* SpecWordbook: the word list of part_001 (saving, removing, lookups that *)
(* succeed or fail, playback).  The drafts are left as the effect sets     *)
(* them.                                                                   *)
(***************************************************************************)
WordbookResponses == {NoText} \cup {TextResponse(JsonBody(w)) : w \in Words}

InitWordbook ==
    /\ Init
    /\ ui = "P1a"
    /\ svc = "GA"
    /\ online
    /\ stHistory = None
    /\ stSaved = None

NextWordbook ==
    \/ SetQuery(<<" ", "c">>)
    \/ SubmitForm
    \/ \E i \in 1..Len(savedWords) : SavedClick(i, TRUE)
    \/ \E i \in 1..Len(lookups), resp \in WordbookResponses, t \in Now :
           ResolveLookup(i, resp, TRUE, t)
    \/ PlayAudio
    \/ \E i \in 1..Len(audio), ok \in BOOLEAN : ResolveAudio(i, ok)
    \/ \E i \in 1..Len(audio) : PlaybackEnded(i)
    \/ HandleSaveWord(TRUE)
    \/ SaveMessageTimeout
    \/ \E i \in 1..Len(savedWords) : RemoveSavedWord(i, TRUE)

SpecWordbook == InitWordbook /\ [][NextWordbook]_vars

(***************************************************************************)
(* SpecUpsert: saving one word again and again, in either letter case,     *)
(* with the note and the proficiency edited in between.                    *)
(***************************************************************************)
UpsertResponses == {TextResponse(JsonBody(w)) : w \in {<<"c">>, <<"C">>}}

NextUpsert ==
    \/ SetQuery(<<" ", "c">>)
    \/ SubmitForm
    \/ \E i \in 1..Len(lookups), resp \in UpsertResponses, t \in Now :
           ResolveLookup(i, resp, TRUE, t)
    \/ \E n \in NoteDrafts : SetNoteInput(n)
    \/ \E p \in ProficiencyLevels : SetProficiency(p)
    \/ HandleSaveWord(TRUE)
    \/ SaveMessageTimeout

SpecUpsert == InitWordbook /\ [][NextUpsert]_vars

(***************************************************************************)
(* SpecLookup: getWordInfo alone, once on a text the backend sent and once *)
(* on the JSON body inside it.  lk.pc tells which of the two runs are      *)
(* done; lk.out and lk.ref are what they returned.                         *)
(***************************************************************************)
\* The strings the JSON bodies hold: plain, ending in a blank, with a fence
\* inside, with a tagged fence inside.
BodyWords ==
    { <<"c">>, <<"c", " ">>, <<"c">> \o Fence, Fence \o <<"c">>,
      FenceJson \o <<"c">>, <<BT, "c">> }

WrapKinds ==
    { "bare", "json", "json-tight", "json-then-newline", "json-then-blank",
      "newline-then-json", "no-tag", "no-tag-tight", "prose-before",
      "prose-after", "prose-around", "json-unclosed" }

Prose == <<"o", "k">>

\* The text a backend sends when it wraps the body b in the way kind.
Wrap(kind, b) ==
    CASE kind = "bare" -> b
      [] kind = "json" -> FenceJson \o <<"\n">> \o b \o <<"\n">> \o Fence
      [] kind = "json-tight" -> FenceJson \o b \o Fence
      [] kind = "json-then-newline" ->
             FenceJson \o <<"\n">> \o b \o <<"\n">> \o Fence \o <<"\n">>
      [] kind = "json-then-blank" ->
             FenceJson \o <<"\n">> \o b \o <<"\n">> \o Fence \o <<" ">>
      [] kind = "newline-then-json" ->
             <<"\n">> \o FenceJson \o <<"\n">> \o b \o <<"\n">> \o Fence
      [] kind = "no-tag" -> Fence \o <<"\n">> \o b \o <<"\n">> \o Fence
      [] kind = "no-tag-tight" -> Fence \o b \o Fence
      [] kind = "prose-before" -> Prose \o <<" ">> \o b
      [] kind = "prose-after" -> b \o <<" ">> \o Prose
      [] kind = "prose-around" -> Prose \o <<" ">> \o b \o <<" ">> \o Prose
      [] kind = "json-unclosed" -> FenceJson \o <<"\n">> \o b

InitLookup ==
    /\ InitApp
    /\ ui = "P3"
    /\ stHistory = None
    /\ script = <<>>
    /\ \E w \in BodyWords, kind \in WrapKinds :
           lk = [LkIdle EXCEPT !.pc = "ready",
                               !.kind = kind,
                               !.text = Wrap(kind, JsonBody(w)),
                               !.plain = JsonBody(w)]

LookupFrame ==
    UNCHANGED <<ui, svc, query, result, loading, error, history, savedWords,
                noteInput, proficiency, saveMessage, isPlaying, online,
                lookups, audio, clock, stHistory, stSaved, script>>

\* await getWordInfo(...) with the backend answering lk.text.
LookupText ==
    /\ lk.pc \in {"ready", "plain"}
    /\ lk' = [lk EXCEPT !.pc = IF lk.pc = "ready" THEN "text" ELSE "both",
                        !.out = getWordInfo(svc, TextResponse(lk.text))]
    /\ LookupFrame

\* await getWordInfo(...) with the backend answering the body alone.
LookupPlain ==
    /\ lk.pc \in {"ready", "text"}
    /\ lk' = [lk EXCEPT !.pc = IF lk.pc = "ready" THEN "plain" ELSE "both",
                        !.ref = getWordInfo(svc, TextResponse(lk.plain))]
    /\ LookupFrame

NextLookup ==
    \/ LookupText
    \/ LookupPlain

SpecLookup == InitLookup /\ [][NextLookup]_vars

(***************************************************************************)
(* SpecRetention: one lookup after the other, every one of them            *)
(* successful, the backend returning the words of a script fixed at the    *)
(* start.  The k-th lookup is written to the history at time k + 1, so     *)
(* clock - 1 lookups are done.                                             *)
(***************************************************************************)
\* The script whose k-th word is the k-th letter, but for the word `again'
\* at position r (r = 0: nowhere).
Script(r, again) ==
    [k \in 1..MaxLookups |-> IF k = r THEN again ELSE <<LowerChars[k]>>]

Scripts ==
    { Script(r, again) : r \in 0..MaxLookups,
                         again \in {<<"A">>, <<"a">>, <<"B">>} }

InitRetention ==
    /\ InitApp
    /\ online
    /\ stHistory = None
    /\ stSaved = None
    /\ lk = LkIdle
    /\ script \in Scripts

\* The next answer of the backend is the next word of the script.
ResolveScripted ==
    /\ clock <= Len(script)
    /\ ResolveLookup(1, TextResponse(JsonBody(script[clock])), TRUE, clock + 1)

NextRetention ==
    \/ SetQuery(<<" ", "c">>)
    \/ SubmitForm
    \/ ResolveScripted

SpecRetention == InitRetention /\ [][NextRetention]_vars

(***************************************************************************)
(* The claims.                                                             *)
(***************************************************************************)
\* C1: in every reachable state at most one getWordInfo call is
\* outstanding; while loading is true the form, the history items, the
\* saved words and the related words start no second lookup.
C1_OneLookupInFlight ==
    /\ Len(lookups) <= 1
    /\ loading <=> Len(lookups) = 1

\* C1 witness: a lookup is in flight while the history holds a word that
\* could be clicked.
C1_Witness == loading /\ Len(lookups) = 1 /\ Len(history) > 0

\* C2 as stated: a lookup that fails (rejection, missing or empty text,
\* unparseable text) leaves the history, the saved words and the result
\* that was displayed exactly as they were when the lookup was submitted.
C2_FailureKeepsResult ==
    [][\A i \in 1..Len(lookups), resp \in Responses, t \in Now :
          (~getWordInfo(svc, resp).ok /\ ResolveLookup(i, resp, TRUE, t)) =>
              /\ history' = lookups[i].history
              /\ savedWords' = lookups[i].saved
              /\ result' = lookups[i].shown]_vars

\* C2 amended: a lookup that fails leaves the history and the saved words
\* exactly as they were when the lookup was submitted; the displayed
\* result was cleared at submission and there is none after the failure.
C2_FailureKeepsLists ==
    [][\A i \in 1..Len(lookups), resp \in Responses, t \in Now :
          (~getWordInfo(svc, resp).ok /\ ResolveLookup(i, resp, TRUE, t)) =>
              /\ history' = lookups[i].history
              /\ history' = history
              /\ savedWords' = lookups[i].saved
              /\ result' = None]_vars

\* C2 witness: a lookup has failed while there are a history and saved
\* words to keep.
C2_Witness ==
    /\ ~loading
    /\ error \notin {Null, MsgOffline}
    /\ result = None
    /\ Len(history) > 0
    /\ Len(savedWords) > 0

\* C4 as stated: the history never holds two entries whose words are equal
\* ignoring letter case.
C4_NoCaseDuplicates ==
    \A i, j \in 1..Len(history) :
        i < j => ToLowerCase(history[i].word) # ToLowerCase(history[j].word)

\* C8: when the text of the backend response is absent or empty,
\* getWordInfo fails and returns no object; the UI then shows an error and
\* no result.
C8_EmptyTextFails ==
    [][\A i \in 1..Len(lookups), resp \in {NoText, TextResponse(<<>>)}, t \in Now :
          ResolveLookup(i, resp, TRUE, t) =>
              /\ ~getWordInfo(svc, resp).ok
              /\ getWordInfo(svc, resp).data = NoData
              /\ error' # Null
              /\ result' = None
              /\ ~loading']_vars

\* C8 witness: the lookup ended on the message of the missing text, with
\* no result.
C8_Witness ==
    /\ ~loading
    /\ error \in {MsgEmptyKo, MsgEmptyEn}
    /\ result = None

\* C9 as stated: for every JSON body B, getWordInfo on B wrapped in a
\* ```json opening fence and a ``` closing fence returns what it returns on
\* B alone, also when the fenced text ends in a blank or a newline and
\* when B holds a fence inside a string.
C9_FencedEqualsPlain ==
    (/\ lk.pc = "both"
     /\ lk.kind \in {"json", "json-tight", "json-then-newline", "json-then-blank"})
        => /\ lk.out.ok = lk.ref.ok
           /\ lk.out.data = lk.ref.data

\* C10 as stated: getWordInfo succeeds, with the object of the body, on a
\* text whose JSON object stands between a leading fence (with or without
\* the json tag) and a trailing fence, or inside other text.
C10_ToleratesWrapping ==
    (/\ lk.pc \in {"text", "both"}
     /\ lk.kind \in {"json", "no-tag", "prose-before", "prose-after", "prose-around"})
        => /\ lk.out.ok
           /\ lk.out.data = ParseJSON(lk.plain).data

\* C3: after any sequence of successful lookups the history holds at most
\* 10 entries, most recent first; after 11 successful lookups of 11
\* distinct words exactly the 10 most recent remain, in reverse order of
\* lookup, and the first of the 11 is gone.
C3_HistoryKeepsTenMostRecent ==
    LET done == clock - 1
    IN  /\ Len(history) <= 10
        /\ \A i \in 1..(Len(history) - 1) :
               history[i].timestamp > history[i + 1].timestamp
        /\ done > 0 =>
               /\ history[1].word = script[done]
               /\ history[1].timestamp = clock
        /\ (/\ done >= 11
            /\ \A i, j \in (done - 10)..done :
                   i # j => ToLowerCase(script[i]) # ToLowerCase(script[j]))
             => /\ Len(history) = 10
                /\ \A k \in 1..10 : history[k].word = script[done - k + 1]
                /\ \A k \in 1..10 :
                       ToLowerCase(history[k].word) # ToLowerCase(script[done - 10])

\* C3 witness: eleven distinct words were looked up, a to k; the history
\* runs from k down to b.
C3_Witness ==
    /\ clock = 12
    /\ Len(history) = 10
    /\ [k \in 1..10 |-> history[k].word]
         = [k \in 1..10 |-> <<LowerChars[12 - k]>>]

\* C5: saving a word that is already in the saved-word list (ignoring
\* case) keeps the save timestamp of the existing record and replaces its
\* note, proficiency and definition by the trimmed note draft, the
\* selected proficiency and the current result.
C5_UpsertKeepsSavedAt ==
    [][(/\ result # None
        /\ HandleSaveWord(TRUE)
        /\ \E k \in 1..Len(savedWords) :
               ToLowerCase(savedWords[k].word) = ToLowerCase(result[1].word))
          => LET k == CHOOSE k \in 1..Len(savedWords) :
                          ToLowerCase(savedWords[k].word) = ToLowerCase(result[1].word)
                 n == CHOOSE n \in 1..Len(savedWords') :
                          ToLowerCase(savedWords'[n].word) = ToLowerCase(result[1].word)
             IN  /\ Len(savedWords') = Len(savedWords)
                 /\ savedWords'[n].savedAt = savedWords[k].savedAt
                 /\ savedWords'[n].note = Trim(noteInput)
                 /\ savedWords'[n].proficiency = proficiency
                 /\ savedWords'[n].definition = result[1]]_vars

\* C5 witness: the record saved at time 1 holds the word as it was looked
\* up at time 2, with the note trimmed and the proficiency chosen.
C5_Witness ==
    /\ saveMessage = MsgSaved
    /\ clock = 2
    /\ history = <<[word |-> <<"C">>, timestamp |-> 2]>>
    /\ Len(savedWords) = 1
    /\ savedWords[1].word = <<"C">>
    /\ savedWords[1].savedAt = 1
    /\ savedWords[1].note = <<"x">>
    /\ savedWords[1].proficiency = "mastered"

\* C6: after any sequence of saves and removals the saved-word list holds
\* at most one record per word, words compared ignoring letter case.
C6_OneRecordPerWord ==
    \A i, j \in 1..Len(savedWords) :
        i < j => ToLowerCase(savedWords[i].word) # ToLowerCase(savedWords[j].word)

\* C6 witness: two words are saved, the first of them in capitals after a
\* save in the other letter case was possible.
C6_Witness ==
    /\ Len(savedWords) = 2
    /\ savedWords[1].word = <<"C">>
    /\ savedWords[1].savedAt < clock

\* C7: a saved word stays in the list through lookups, playbacks and the
\* saves and removals of other words; its record disappears only in a
\* removeSavedWord for that word (ignoring case).
C7_SavedUntilRemoved ==
    [][\A w \in Words :
          (/\ \E k \in 1..Len(savedWords) :
                  ToLowerCase(savedWords[k].word) = ToLowerCase(w)
           /\ \A k \in 1..Len(savedWords') :
                  ToLowerCase(savedWords'[k].word) # ToLowerCase(w))
            => \E i \in 1..Len(savedWords) :
                   /\ ToLowerCase(savedWords[i].word) = ToLowerCase(w)
                   /\ RemoveSavedWord(i, TRUE)]_vars

\* C7 witness: the word saved at time 1 is still in the list while another
\* word is displayed and played, after a later lookup.
C7_Witness ==
    /\ Len(savedWords) = 1
    /\ savedWords[1].word = <<"d">>
    /\ savedWords[1].savedAt = 1
    /\ clock = 2
    /\ result # None
    /\ result[1].word = <<"c">>
    /\ audio # <<>>

\* C11 as stated: when the cleaned text is not valid JSON, getWordInfo
\* fails with the error "Invalid response format", neither a network error
\* nor the error of the parser.
C11_InvalidFormatError ==
    (lk.pc \in {"text", "both"} /\ ~lk.out.ok)
        => lk.out.message = MsgInvalidFormat

(***************************************************************************)
(* SpecSchema: lookups answered by JSON objects that are valid JSON but    *)
(* not what the response schema asks for.  JSON.parse returns them as they *)
(* are; of the object the model carries the word.                          *)
(***************************************************************************)
SchemaResponses ==
    {TextResponse(JsonBody(<<>>)), TextResponse(JsonBody(<<"c">>))}

InitSchema ==
    /\ Init
    /\ online
    /\ stHistory = None

NextSchema ==
    \/ SetQuery(<<" ", "c">>)
    \/ SubmitForm
    \/ \E i \in 1..Len(history) : HistoryClick(i)
    \/ \E i \in 1..Len(lookups), resp \in SchemaResponses, t \in Now :
           ResolveLookup(i, resp, TRUE, t)

SpecSchema == InitSchema /\ [][NextSchema]_vars

\* C12 as stated: every WordDefinition that getWordInfo returns, and that
\* the UI stores as result and renders, has its required fields present
\* and its word non-empty, whatever JSON text the backend returned.  (Of
\* the fields the model has the word.)
C12_ResultHasWord ==
    result # None => result[1].word # <<>>

(***************************************************************************)
(* SpecAudio: playback next to lookups, in every snapshot of the App.  The *)
(* audio backend, the decoding and the start of the source succeed or      *)
(* fail as a whole.                                                        *)
(***************************************************************************)
AudioResponses == {NoText} \cup {TextResponse(JsonBody(w)) : w \in {<<"c">>, <<"d">>}}

InitAudio ==
    /\ Init
    /\ svc = "GA"
    /\ online
    /\ stHistory = None
    /\ stSaved = None

NextAudio ==
    \/ SetQuery(<<" ", "c">>)
    \/ SubmitForm
    \/ \E i \in 1..Len(history) : HistoryClick(i)
    \/ \E i \in 1..Len(lookups), resp \in AudioResponses, t \in Now :
           ResolveLookup(i, resp, TRUE, t)
    \/ PlayAudio
    \/ \E i \in 1..Len(audio), ok \in BOOLEAN : ResolveAudio(i, ok)
    \/ \E i \in 1..Len(audio) : PlaybackEnded(i)

SpecAudio == InitAudio /\ [][NextAudio]_vars

\* C13: at most one playback is in flight: playAudio called while
\* isPlaying is true, or while no result is displayed, issues no synthesis
\* request, so at most one synthesis request or playback is outstanding.
C13_OnePlaybackInFlight ==
    /\ Len(audio) <= 1
    /\ isPlaying <=> Len(audio) = 1

\* C13 witness: a source is playing after the result it was started from
\* has been replaced by a new lookup.
C13_Witness ==
    /\ isPlaying
    /\ Len(audio) = 1
    /\ audio[1].st = "playing"
    /\ loading
    /\ result = None

\* C14: each lookup or playback the user triggers issues exactly one
\* backend request, and after a request has failed no request is issued
\* until the next user action: the number of outstanding requests grows
\* only in a step of the user, by one, and a failed answer takes one away.
C14_NoRetry ==
    [][LET Requests(l, a) ==
               Len(l) + Cardinality({i \in 1..Len(a) : a[i].st = "synth"})
       IN  /\ Requests(lookups', audio') <= Requests(lookups, audio) + 1
           /\ Requests(lookups', audio') > Requests(lookups, audio)
                 => \/ SubmitForm
                    \/ PlayAudio
                    \/ \E i \in 1..Len(history) : HistoryClick(i)
           /\ \A i \in 1..Len(lookups), resp \in AudioResponses, t \in Now :
                 (~getWordInfo(svc, resp).ok /\ ResolveLookup(i, resp, TRUE, t))
                    => Requests(lookups', audio') = Requests(lookups, audio) - 1
           /\ \A i \in 1..Len(audio) :
                 ResolveAudio(i, FALSE)
                    => Requests(lookups', audio') = Requests(lookups, audio) - 1]_vars

\* C14 witness: a lookup has failed and nothing is outstanding, while a
\* result of an earlier lookup is in the history.
C14_Witness ==
    /\ error # Null
    /\ ~loading
    /\ lookups = <<>>
    /\ audio = <<>>
    /\ Len(history) > 0

(***************************************************************************)
(* geminiService.getPronunciationAudio.                                    *)
(*                                                                         *)
(* The answer of the audio backend: rejected, or a response whose          *)
(* candidates, content, parts, inlineData and data may each be absent.     *)
(***************************************************************************)
MsgAudioKo == "pronunciation server connection failed (ko)"
MsgAudioEn == "Audio generation failed"

AudioOk(b) == [ok |-> TRUE, data |-> b, message |-> ""]
AudioFail(m) == [ok |-> FALSE, data |-> <<>>, message |-> m]

SpeechRejected(m) == [rejected |-> TRUE, message |-> m, candidates |-> None]
SpeechResponse(cands) == [rejected |-> FALSE, message |-> "", candidates |-> cands]
TextPart == [inlineData |-> None]
InlinePart(data) == [inlineData |-> Some([data |-> data])]

\* x?.[0]
At1(x) == IF x = None \/ x[1] = <<>> THEN None ELSE Some(x[1][1])

\* response.candidates?.[0]?.content?.parts?.[0]?.inlineData?.data
Base64Audio(resp) ==
    LET cand == At1(resp.candidates)
        content == IF cand = None THEN None ELSE cand[1].content
        parts == IF content = None THEN None ELSE content[1].parts
        part == At1(parts)
        inline == IF part = None THEN None ELSE part[1].inlineData
    IN  IF inline = None THEN None ELSE inline[1].data

\* A check that lets the empty string through (C15 fails with it).
AudioUndefined(d) == d = None
\* !base64Audio
AudioMissing(d) == d = None \/ d[1] = <<>>

\* The first getPronunciationAudio of geminiService.ts: one message for
\* every failure.
getPronunciationAudioGA(resp) ==
    IF resp.rejected THEN AudioFail(MsgAudioKo)
    ELSE IF AudioMissing(Base64Audio(resp)) THEN AudioFail(MsgAudioKo)
    ELSE AudioOk(Base64Audio(resp)[1])

\* The second one, and the one of part_000: no try block.
getPronunciationAudioGB(resp) ==
    IF resp.rejected THEN AudioFail(resp.message)
    ELSE IF AudioMissing(Base64Audio(resp)) THEN AudioFail(MsgAudioEn)
    ELSE AudioOk(Base64Audio(resp)[1])

getPronunciationAudio(s, resp) ==
    IF s = "GA" THEN getPronunciationAudioGA(resp) ELSE getPronunciationAudioGB(resp)

(***************************************************************************)
(* SpecSynth: getPronunciationAudio alone, on one answer of the backend.   *)
(* lk.want is the payload of the first part of the first candidate, when   *)
(* the answer was built with one.                                          *)
(***************************************************************************)
Payloads == { <<"A", "A", "A", "A">>, <<"A", "A", "=", "=">>, <<"/", "w", "8", "=">> }

OneCandidate(parts) ==
    SpeechResponse(Some(<<[content |-> Some([parts |-> parts])]>>))

SpeechCases ==
    { [resp |-> SpeechRejected(MsgFetch), want |-> None],
      [resp |-> SpeechResponse(None), want |-> None],
      [resp |-> SpeechResponse(Some(<<>>)), want |-> None],
      [resp |-> SpeechResponse(Some(<<[content |-> None]>>)), want |-> None],
      [resp |-> OneCandidate(None), want |-> None],
      [resp |-> OneCandidate(Some(<<>>)), want |-> None],
      [resp |-> OneCandidate(Some(<<TextPart>>)), want |-> None],
      [resp |-> OneCandidate(Some(<<[inlineData |-> Some([data |-> None])]>>)),
       want |-> None],
      [resp |-> OneCandidate(Some(<<InlinePart(Some(<<>>))>>)), want |-> None] }
    \cup { [resp |-> OneCandidate(Some(<<InlinePart(Some(p))>>)), want |-> Some(p)] :
             p \in Payloads }
    \cup { [resp |-> OneCandidate(Some(<<InlinePart(Some(p)),
                                         InlinePart(Some(<<"Z", "g", "=", "=">>))>>)),
            want |-> Some(p)] : p \in Payloads }
    \cup { [resp |-> OneCandidate(Some(<<TextPart, InlinePart(Some(p))>>)),
            want |-> None] : p \in Payloads }
    \cup { [resp |-> SpeechResponse(Some(<<[content |-> None],
                         [content |-> Some([parts |-> Some(<<InlinePart(Some(p))>>)])]>>)),
            want |-> None] : p \in Payloads }

InitSynth ==
    /\ InitApp
    /\ ui = "P3"
    /\ stHistory = None
    /\ script = <<>>
    /\ \E c \in SpeechCases :
           lk = [pc |-> "ready", resp |-> c.resp, want |-> c.want,
                 out |-> AudioFail("")]

\* await getPronunciationAudio(...) with the backend answering lk.resp.
Synthesize ==
    /\ lk.pc = "ready"
    /\ lk' = [lk EXCEPT !.pc = "done",
                        !.out = getPronunciationAudio(svc, lk.resp)]
    /\ LookupFrame

SpecSynth == InitSynth /\ [][Synthesize]_vars

C16_OfflineSubmitIsRefused ==
    [][(/\ ~online
        /\ \/ SubmitForm
           \/ \E i \in 1..Len(history) : HistoryClick(i)
           \/ \E i \in 1..Len(savedWords), view \in BOOLEAN : SavedClick(i, view))
          => /\ lookups' = lookups
             /\ lookups' = <<>>
             /\ error' = MsgOffline
             /\ loading' = FALSE
             /\ result' = result
             /\ history' = history]_vars

\* C16 witness: the offline message is shown next to the result and the
\* history of an earlier lookup, and nothing is in flight.
C16_Witness ==
    /\ ~online
    /\ error = MsgOffline
    /\ ~loading
    /\ lookups = <<>>
    /\ result # None
    /\ Len(history) > 0

(***************************************************************************)
(* geminiService.decodeAudioData.                                          *)
(*                                                                         *)
(* data is a sequence of bytes (index 0 of the code is index 1 here); a    *)
(* sample of the AudioBuffer is the fraction num/den, or NaN.              *)
(***************************************************************************)
\* A reading of the two bytes as an unsigned number, as a Uint16Array would
\* give (C21 fails with it).
Uint16At(data, k) == data[2 * k + 1] + 256 * data[2 * k + 2]
\* dataInt16[k]: the two bytes at 2k and 2k + 1, low byte first, read as a
\* two's-complement number.
Int16At(data, k) ==
    LET u == data[2 * k + 1] + 256 * data[2 * k + 2]
    IN  IF u >= 32768 THEN u - 65536 ELSE u

\* dataInt16[idx] / 32768.0: an index past the end reads undefined, and
\* undefined / 32768.0 is NaN.
PcmValue(data, idx) ==
    IF idx < Len(data) \div 2
    THEN [nan |-> FALSE, num |-> Int16At(data, idx), den |-> 32768]
    ELSE [nan |-> TRUE, num |-> 0, den |-> 32768]

\* A store that lets the array grow, as a plain Array would (C18 fails with
\* it).
StoreGrowing(arr, i, v) ==
    IF i < Len(arr) THEN [arr EXCEPT ![i + 1] = v] ELSE Append(arr, v)
\* channelData[i] = v: a Float32Array ignores a store past its end.
StoreTyped(arr, i, v) ==
    IF i < Len(arr) THEN [arr EXCEPT ![i + 1] = v] ELSE arr

\* An index that forgets the stride of the frames (C17 fails with it).
SampleIndexDense(i, numChannels, channel) == i + channel
\* i * numChannels + channel
SampleIndex(i, numChannels, channel) == i * numChannels + channel

\* The inner loop from i on: i < frameCount, where frameCount is the
\* quotient dataInt16.length / numChannels, not rounded.
RECURSIVE FillChannel(_, _, _, _, _)
FillChannel(arr, data, numChannels, channel, i) ==
    IF i * numChannels < Len(data) \div 2
    THEN FillChannel(
             StoreTyped(arr, i, PcmValue(data, SampleIndex(i, numChannels, channel))),
             data, numChannels, channel, i + 1)
    ELSE arr

\* decodeAudioData(data, ctx, sampleRate, numChannels).  new Int16Array
\* throws a RangeError on a buffer of odd length; ctx.createBuffer takes
\* the integer part of frameCount as the length and throws a
\* NotSupportedError when that is 0; the channels start as zeros.
decodeAudioData(data, numChannels) ==
    LET length == (Len(data) \div 2) \div numChannels
        zeros == [i \in 1..length |-> [nan |-> FALSE, num |-> 0, den |-> 32768]]
    IN  IF Len(data) % 2 # 0
        THEN [ok |-> FALSE, error |-> "RangeError", channels |-> <<>>]
        ELSE IF length = 0
        THEN [ok |-> FALSE, error |-> "NotSupportedError", channels |-> <<>>]
        ELSE [ok |-> TRUE, error |-> "",
              channels |-> [c \in 1..numChannels |->
                               FillChannel(zeros, data, numChannels, c - 1, 0)]]

(***************************************************************************)
(* SpecPcm: decodeAudioData alone, on the bytes of a sequence of 16-bit    *)
(* samples, with or without one more byte after them.                      *)
(***************************************************************************)
SampleValues == {-32768, -1, 0, 1, 32767}

RECURSIVE SampleSeqs(_)
SampleSeqs(n) ==
    IF n = 0 THEN {<<>>}
    ELSE SampleSeqs(n - 1)
           \cup {Append(q, v) : q \in {r \in SampleSeqs(n - 1) : Len(r) = n - 1},
                                v \in SampleValues}

\* The bytes of the samples, low byte first.
RECURSIVE BytesOf(_)
BytesOf(samples) ==
    IF samples = <<>> THEN <<>>
    ELSE LET u == (Head(samples) + 65536) % 65536
         IN  <<u % 256, u \div 256>> \o BytesOf(Tail(samples))

InitPcm ==
    /\ InitApp
    /\ ui = "P3"
    /\ svc = "GA"
    /\ stHistory = None
    /\ script = <<>>
    /\ \E samples \in SampleSeqs(MaxSamples), rest \in {<<>>, <<127>>},
          numChannels \in 1..3 :
           lk = [pc |-> "ready", samples |-> samples,
                 data |-> BytesOf(samples) \o rest, numChannels |-> numChannels,
                 out |-> [ok |-> FALSE, error |-> "", channels |-> <<>>]]

\* await decodeAudioData(data, audioCtx, 24000, numChannels)
DecodePcm ==
    /\ lk.pc = "ready"
    /\ lk' = [lk EXCEPT !.pc = "done",
                        !.out = decodeAudioData(lk.data, lk.numChannels)]
    /\ LookupFrame

SpecPcm == InitPcm /\ [][DecodePcm]_vars

\* C17: decodeAudioData de-interleaves: for every channel c below the
\* channel count and every frame i below the frame count, channel c at
\* index i is the 16-bit sample at position i * channelCount + c divided
\* by 32768; with 2 channels, [L0, R0, L1, R1] gives [L0, L1] and [R0, R1],
\* each divided by 32768.
C17_Deinterleaves ==
    (lk.pc = "done" /\ lk.out.ok) =>
        /\ Len(lk.out.channels) = lk.numChannels
        /\ \A c \in 0..(lk.numChannels - 1) :
             \A i \in 0..((Len(lk.samples) \div lk.numChannels) - 1) :
                 /\ ~lk.out.channels[c + 1][i + 1].nan
                 /\ lk.out.channels[c + 1][i + 1].num
                        = lk.samples[i * lk.numChannels + c + 1]
                 /\ lk.out.channels[c + 1][i + 1].den = 32768

\* C17 witness: two channels, samples [1, -1, 32767, -32768]: channel 0 is
\* [1, 32767] and channel 1 is [-1, -32768], over 32768.
C17_Witness ==
    /\ lk.pc = "done"
    /\ lk.numChannels = 2
    /\ lk.samples = <<1, -1, 32767, -32768>>
    /\ lk.out.ok
    /\ [i \in 1..2 |-> lk.out.channels[1][i].num] = <<1, 32767>>
    /\ [i \in 1..2 |-> lk.out.channels[2][i].num] = <<-1, -32768>>

\* C18: the frame count is the sample count divided by the channel count,
\* rounded down: a trailing partial frame is dropped, every channel has
\* exactly that many entries, and no position past the end of the input
\* is read into the output.
C18_PartialFrameDropped ==
    (lk.pc = "done" /\ lk.out.ok) =>
        \A c \in 1..Len(lk.out.channels) :
            /\ Len(lk.out.channels[c]) = Len(lk.samples) \div lk.numChannels
            /\ \A i \in 1..Len(lk.out.channels[c]) : ~lk.out.channels[c][i].nan

\* C18 witness: three samples on two channels give one frame.
C18_Witness ==
    /\ lk.pc = "done"
    /\ lk.numChannels = 2
    /\ Len(lk.samples) = 3
    /\ lk.out.ok
    /\ Len(lk.out.channels[1]) = 1
    /\ Len(lk.out.channels[2]) = 1

\* C19 as stated: decodeAudioData completes without error on every byte
\* sequence decode can produce, also on one of odd length.
C19_DecodeNeverFails ==
    lk.pc = "done" => lk.out.ok

\* C21: every sample decodeAudioData outputs is k/32768 for an integer k
\* with -32768 <= k <= 32767, k being the two's-complement reading of the
\* two input bytes, low byte first: the pair 0x00,0x80 gives exactly -1,
\* the pair 0xFF,0x7F gives 32767/32768, and +1.0 is never produced.
C21_SampleRange ==
    (lk.pc = "done" /\ lk.out.ok) =>
        \A c \in 1..Len(lk.out.channels) :
            \A i \in 1..Len(lk.out.channels[c]) :
                LET v == lk.out.channels[c][i]
                    at == 2 * ((i - 1) * lk.numChannels + (c - 1))
                    lo == lk.data[at + 1]
                    hi == lk.data[at + 2]
                IN  /\ ~v.nan
                    /\ v.den = 32768
                    /\ v.num \in -32768..32767
                    /\ v.num = lo + 256 * hi - (IF hi >= 128 THEN 65536 ELSE 0)
                    /\ (lo = 0 /\ hi = 128) => v.num = -v.den
                    /\ (lo = 255 /\ hi = 127) => v.num = 32767
                    /\ v.num # v.den

\* C21 witness: one channel, bytes 0x00,0x80,0xFF,0x7F: the samples are
\* -32768/32768 and 32767/32768.
C21_Witness ==
    /\ lk.pc = "done"
    /\ lk.numChannels = 1
    /\ lk.data = <<0, 128, 255, 127>>
    /\ lk.out.ok
    /\ lk.out.channels[1][1].num = -32768
    /\ lk.out.channels[1][2].num = 32767


\* ---------------------------------------------------------------------
\* decode (src/geminiService.ts:93-101): atob, then one byte per character
\* of the binary string.  atob is the platform's forgiving base64 decoder.
\* ---------------------------------------------------------------------

MaxBase64 == 4

Base64Alphabet ==
    << "A", "B", "C", "D", "E", "F", "G", "H", "I", "J", "K", "L", "M",
       "N", "O", "P", "Q", "R", "S", "T", "U", "V", "W", "X", "Y", "Z",
       "a", "b", "c", "d", "e", "f", "g", "h", "i", "j", "k", "l", "m",
       "n", "o", "p", "q", "r", "s", "t", "u", "v", "w", "x", "y", "z",
       "0", "1", "2", "3", "4", "5", "6", "7", "8", "9", "+", "/" >>

SextetFromOne(c) == CHOOSE i \in 1..64 : Base64Alphabet[i] = c

Sextet(c) == (CHOOSE i \in 1..64 : Base64Alphabet[i] = c) - 1

\* The character codes of the binary string: every four sextets give three
\* codes, three sextets two (two bits discarded), two sextets one (four
\* bits discarded).
RECURSIVE SextetBytes(_)
SextetBytes(t) ==
    IF Len(t) >= 4
    THEN LET n == Sextet(t[1]) * 262144 + Sextet(t[2]) * 4096
                    + Sextet(t[3]) * 64 + Sextet(t[4])
         IN  <<n \div 65536, (n \div 256) % 256, n % 256>>
               \o SextetBytes(SubSeq(t, 5, Len(t)))
    ELSE IF Len(t) = 3
    THEN LET n == Sextet(t[1]) * 4096 + Sextet(t[2]) * 64 + Sextet(t[3])
         IN  <<n \div 1024, (n \div 4) % 256>>
    ELSE IF Len(t) = 2
    THEN <<(Sextet(t[1]) * 64 + Sextet(t[2])) \div 16>>
    ELSE <<>>

\* atob: ASCII white space is removed; one or two trailing "=" are removed
\* when the length is a multiple of four; a remaining length of 1 modulo 4
\* or a character outside the alphabet throws InvalidCharacterError.
atob(data) ==
    LET s == SelectSeq(data, LAMBDA c : ~IsSpace(c))
        t == IF Len(s) % 4 = 0 /\ Len(s) >= 2 /\ EndsWith(s, <<"=", "=">>)
             THEN DropLast(s, 2)
             ELSE IF Len(s) % 4 = 0 /\ Len(s) >= 1 /\ EndsWith(s, <<"=">>)
             THEN DropLast(s, 1)
             ELSE s
        chars == {Base64Alphabet[i] : i \in 1..64}
    IN  IF Len(t) % 4 = 1 \/ \E i \in 1..Len(t) : t[i] \notin chars
        THEN [ok |-> FALSE, codes |-> <<>>]
        ELSE [ok |-> TRUE, codes |-> SextetBytes(t)]

decode(base64) ==
    LET binaryString == atob(base64)
    IN  IF ~binaryString.ok
        THEN [ok |-> FALSE, error |-> "InvalidCharacterError", bytes |-> <<>>]
        ELSE [ok |-> TRUE, error |-> Null,
              bytes |-> [i \in 1..Len(binaryString.codes) |->
                            binaryString.codes[i] % 256]]

\* ---------------------------------------------------------------------
\* SpecBase64: decode run on the padded encodings of byte sequences, as the
\* speech backend sends them, and on arbitrary short texts.
\* ---------------------------------------------------------------------

RECURSIVE Base64Encode(_)
Base64Encode(bytes) ==
    IF Len(bytes) >= 3
    THEN LET n == bytes[1] * 65536 + bytes[2] * 256 + bytes[3]
         IN  << Base64Alphabet[(n \div 262144) + 1],
                Base64Alphabet[((n \div 4096) % 64) + 1],
                Base64Alphabet[((n \div 64) % 64) + 1],
                Base64Alphabet[(n % 64) + 1] >>
               \o Base64Encode(SubSeq(bytes, 4, Len(bytes)))
    ELSE IF Len(bytes) = 2
    THEN LET n == (bytes[1] * 256 + bytes[2]) * 4
         IN  << Base64Alphabet[(n \div 4096) + 1],
                Base64Alphabet[((n \div 64) % 64) + 1],
                Base64Alphabet[(n % 64) + 1], "=" >>
    ELSE IF Len(bytes) = 1
    THEN LET n == bytes[1] * 16
         IN  << Base64Alphabet[(n \div 64) + 1], Base64Alphabet[(n % 64) + 1],
                "=", "=" >>
    ELSE <<>>

RECURSIVE Base64Texts(_)
Base64Texts(n) ==
    IF n = 0 THEN {<<>>}
    ELSE Base64Texts(n - 1)
           \cup {Append(q, c) : q \in {r \in Base64Texts(n - 1) : Len(r) = n - 1},
                                c \in {"A", "/", "=", " ", "!"}}

InitBase64 ==
    /\ InitApp
    /\ ui = "P3"
    /\ svc = "GA"
    /\ stHistory = None
    /\ script = <<>>
    /\ \/ \E samples \in SampleSeqs(2), rest \in {<<>>, <<127>>} :
            lk = [pc |-> "ready", kind |-> "encoded",
                  bytes |-> BytesOf(samples) \o rest,
                  input |-> Base64Encode(BytesOf(samples) \o rest),
                  out |-> [ok |-> FALSE, error |-> "", bytes |-> <<>>]]
       \/ \E text \in Base64Texts(MaxBase64) :
            lk = [pc |-> "ready", kind |-> "raw", bytes |-> <<>>,
                  input |-> text, out |-> [ok |-> FALSE, error |-> "", bytes |-> <<>>]]

\* const bytes = decode(base64Audio)
DecodeBase64 ==
    /\ lk.pc = "ready"
    /\ lk' = [lk EXCEPT !.pc = "done", !.out = decode(lk.input)]
    /\ LookupFrame

SpecBase64 == InitBase64 /\ [][DecodeBase64]_vars

SpecAudioLive ==
    /\ SpecAudio
    /\ WF_vars(\E i \in 1..Len(audio), ok \in BOOLEAN : ResolveAudio(i, ok))
    /\ WF_vars(\E i \in 1..Len(audio) : PlaybackEnded(i))

\* C22: whenever isPlaying becomes true it eventually becomes false again,
\* through the end-of-playback callback or through the error path, provided
\* the synthesis request is answered and a started source ends; also when a
\* new lookup replaces the displayed result in the meantime.
C22_PlayingEnds == isPlaying ~> ~isPlaying

\* C22 witness: a source is playing the word "c" while a later lookup has
\* put another word on display.
C22_Witness ==
    /\ isPlaying
    /\ Len(audio) = 1
    /\ audio[1].st = "playing"
    /\ result # None
    /\ result[1].word # audio[1].word


(***************************************************************************)
(* SpecPlayback: playAudio with its steps told apart.  The answer of the   *)
(* audio backend goes through getPronunciationAudio, decode and            *)
(* decodeAudioData (one channel); lk.pc records the step at which the last *)
(* playback stopped, which is what the catch block logs.                   *)
(***************************************************************************)
\* The try block of playAudio after the answer resp: the step that throws,
\* or "started" when source.start() is reached.
PlaybackStep(s, resp) ==
    LET base64 == getPronunciationAudio(s, resp)
        bytes == decode(base64.data)
        buffer == decodeAudioData(bytes.bytes, 1)
    IN  IF ~base64.ok THEN "synthesis"
        ELSE IF ~bytes.ok THEN "base64"
        ELSE IF ~buffer.ok THEN "pcm"
        ELSE "started"

\* A catch block that reports the failure in the error box, as the one of
\* handleSearch does (C23 fails with it).
ResolveSpeechReported(i, resp) ==
    /\ i \in 1..Len(audio)
    /\ audio[i].st = "synth"
    /\ lk' = [lk EXCEPT !.pc = PlaybackStep(svc, resp)]
    /\ IF PlaybackStep(svc, resp) = "started"
       THEN /\ audio' = [audio EXCEPT ![i].st = "playing"]
            /\ UNCHANGED <<isPlaying, error>>
       ELSE /\ audio' = RemoveAt(audio, i)
            /\ isPlaying' = FALSE
            /\ error' = MsgAudioEn
    /\ UNCHANGED <<ui, svc, query, result, loading, history, savedWords,
                   noteInput, proficiency, saveMessage, online, lookups, clock,
                   stHistory, stSaved, script>>
\* playAudio from the answer resp of the audio backend on.
ResolveSpeech(i, resp) ==
    /\ i \in 1..Len(audio)
    /\ audio[i].st = "synth"
    /\ lk' = [lk EXCEPT !.pc = PlaybackStep(svc, resp)]
    /\ IF PlaybackStep(svc, resp) = "started"
       THEN /\ audio' = [audio EXCEPT ![i].st = "playing"]
            /\ UNCHANGED isPlaying
       ELSE /\ audio' = RemoveAt(audio, i)
            /\ isPlaying' = FALSE
    /\ UNCHANGED <<ui, svc, query, result, loading, error, history, savedWords,
                   noteInput, proficiency, saveMessage, online, lookups, clock,
                   stHistory, stSaved, script>>

NextPlayback ==
    \/ SetQuery(<<" ", "c">>)
    \/ SubmitForm
    \/ \E i \in 1..Len(lookups), resp \in AudioResponses, t \in Now :
           ResolveLookup(i, resp, TRUE, t)
    \/ HandleSaveWord(TRUE)
    \/ PlayAudio
    \/ \E i \in 1..Len(audio),
          resp \in {SpeechRejected(MsgFetch), SpeechResponse(None)}
                     \cup {OneCandidate(Some(<<InlinePart(Some(p))>>)) :
                             p \in { <<"!", "A", "A", "A">>, <<"A", "A", "A", "A">>,
                                     <<"A", "A", "A", "=">>, <<"/", "3", "8", "A">> }} :
           ResolveSpeech(i, resp)
    \/ \E i \in 1..Len(audio) : PlaybackEnded(i)

SpecPlayback == InitAudio /\ [][NextPlayback]_vars

\* C23: a playback that fails at any step (the synthesis request is
\* rejected or returns no audio, the base64 decoding fails, the PCM
\* decoding fails) clears isPlaying and leaves result, the lookup error
\* message, history and saved words unchanged.
C23_FailedPlaybackFrame ==
    [][(lk'.pc \in {"synthesis", "base64", "pcm"} /\ audio' # audio
          /\ Len(audio') < Len(audio))
        => (/\ ~isPlaying'
            /\ UNCHANGED <<result, error, history, savedWords, stHistory,
                           stSaved, loading>>)]_vars

\* C23 witness: a playback has stopped at the PCM decoding (a payload of
\* three bytes) while a result, a history and a saved word were there.
C23_Witness ==
    /\ lk.pc = "pcm"
    /\ ~isPlaying
    /\ audio = <<>>
    /\ result # None
    /\ Len(history) > 0
    /\ Len(savedWords) > 0


(***************************************************************************)
(* SpecStorage: lookups and the history in every snapshot, with a          *)
(* localStorage whose setItem may throw (quota, private mode).             *)
(* SpecStorageLive has the backend answer every lookup.                    *)
(***************************************************************************)
NextStorage ==
    \/ SetQuery(<<" ", "c">>)
    \/ SubmitForm
    \/ \E i \in 1..Len(history) : HistoryClick(i)
    \/ \E i \in 1..Len(lookups), resp \in AudioResponses, storageOk \in BOOLEAN,
          t \in Now : ResolveLookup(i, resp, storageOk, t)
    \/ ClearHistory

SpecStorage == InitAudio /\ [][NextStorage]_vars

SpecStorageLive ==
    /\ SpecStorage
    /\ WF_vars(\E i \in 1..Len(lookups), resp \in AudioResponses,
                  storageOk \in BOOLEAN, t \in Now :
                    ResolveLookup(i, resp, storageOk, t))

\* C24: loading is true exactly while a lookup request is outstanding: it
\* is set when the request is issued and cleared when the request resolves
\* or rejects, on every success and failure path, a failure raised while
\* recording the history included; so every lookup whose backend call
\* returns leaves loading false in the end.
C24_LoadingWhileOutstanding ==
    /\ [](loading <=> Len(lookups) > 0)
    /\ loading ~> ~loading

\* C24 witness: a lookup has been answered, the write of the history threw
\* (the error box tells), and loading is false again.
C24_Witness ==
    /\ ~loading
    /\ lookups = <<>>
    /\ result # None
    /\ error = ErrorText(ui, MsgQuota)
    /\ stHistory = None


(***************************************************************************)
(* SpecMount: start-up on a localStorage whose texts may not be JSON.      *)
(* lk.history and lk.saved tell what the mount effect found under the two  *)
(* keys: no text, the JSON text of a list (stHistory and stSaved hold the  *)
(* list), or a text JSON.parse throws on.  lk.pc tells whether the App is  *)
(* still mounted: an exception that leaves an effect unmounts the tree,    *)
(* since no error boundary is around it.                                   *)
(***************************************************************************)
\* setHistory(JSON.parse(savedHistory)) outside a try block (part_002).
MountThrows(u, found) == u = "P2" /\ found = "unparseable"

InitMount ==
    /\ InitApp
    /\ svc = "GA"
    /\ online
    /\ script = <<>>
    /\ \E h \in {"absent", "list", "unparseable"},
          s \in (IF ui = "P1a" THEN {"absent", "list", "unparseable"} ELSE {"absent"}) :
           /\ (h = "list") <=> (stHistory # None)
           /\ (s = "list") <=> (stSaved # None)
           /\ lk = [pc |-> IF MountThrows(ui, h) THEN "unmounted" ELSE "mounted",
                    history |-> h, saved |-> s]

NextMount ==
    \/ lk.pc = "mounted" /\ SetQuery(<<" ", "c">>)
    \/ lk.pc = "mounted" /\ SubmitForm
    \/ lk.pc = "mounted" /\ \E i \in 1..Len(lookups), resp \in AudioResponses, t \in Now :
                              ResolveLookup(i, resp, TRUE, t)
    \/ lk.pc = "mounted" /\ HandleSaveWord(TRUE)

SpecMount == InitMount /\ [][NextMount]_vars

\* C25 as stated: start-up with unparseable persisted history or saved-word
\* data is not fatal: the App stays mounted, and lookups and saves go on.
C25_StartupNotFatal ==
    (lk.history = "unparseable" \/ lk.saved = "unparseable") => lk.pc = "mounted"


\* C26 as stated: when an issued lookup completes (loading returns to
\* false), exactly one of result and error is set, also when recording the
\* word in the history or writing it to the storage fails after the result
\* was set.
C26_ResultOrError ==
    [][(loading /\ ~loading') => ((result' # None) # (error' # Null))]_vars


\* C27 as stated: after every mutation of the history or of the word list
\* the list persisted in local storage under its key equals the list in
\* memory, also when the storage write fails.
C27_StorageMirrorsMemory ==
    /\ Loaded(stHistory) = history
    /\ Loaded(stSaved) = savedWords


\* C28 as stated: when the playback of a synthesized pronunciation starts,
\* the word that was synthesized is the word of the result displayed at
\* that moment, also when a new lookup was submitted and completed while
\* the synthesis request was in flight.
C28_PlaysDisplayedWord ==
    [][\A i \in 1..Len(audio) :
          (/\ audio[i].st = "synth"
           /\ Len(audio') = Len(audio)
           /\ audio'[i].st = "playing"
           /\ result' # None)
          => audio'[i].word = result'[1].word]_vars


\* C29: after a successful lookup the word of the first history entry is
\* the word field of the returned definition, the one shown as result, not
\* the query the user typed; so two queries the backend answers with the
\* same word share one history entry.
C29_HistoryHoldsReturnedWord ==
    /\ [][(loading /\ ~loading' /\ result' # None)
            => (/\ Len(history') > 0
                /\ history'[1].word = result'[1].word
                /\ \A j \in 2..Len(history') :
                       history'[j].word # result'[1].word)]_vars
    /\ [](\A i, j \in 1..Len(history) :
              history[i].word = history[j].word => i = j)

\* C29 witness: the query " c" was answered with the word "d", which heads
\* the history and is its only entry with that word.
C29_Witness ==
    /\ ~loading
    /\ lookups = <<>>
    /\ query = <<" ", "c">>
    /\ result = Some([word |-> <<"d">>])
    /\ Len(history) > 0
    /\ history[1].word = <<"d">>


(***************************************************************************)
(* SpecDrafts: the note and proficiency drafts of part_001 next to the     *)
(* word list: lookups of two words, edits of the drafts, saving and        *)
(* removing.                                                               *)
(***************************************************************************)
NextDrafts ==
    \/ SetQuery(<<" ", "c">>)
    \/ SubmitForm
    \/ \E i \in 1..Len(lookups), resp \in AudioResponses, t \in Now :
           ResolveLookup(i, resp, TRUE, t)
    \/ \E n \in NoteDrafts : SetNoteInput(n)
    \/ SetProficiency("mastered")
    \/ HandleSaveWord(TRUE)
    \/ \E i \in 1..Len(savedWords) : RemoveSavedWord(i, TRUE)

SpecDrafts == InitWordbook /\ [][NextDrafts]_vars

\* C30 as stated: removing a saved word other than the displayed one leaves
\* the note draft and the proficiency selection edited for the displayed
\* word unchanged.
C30_RemovingOtherKeepsDrafts ==
    [][\A i \in 1..Len(savedWords) :
          (/\ result # None
           /\ ~SameSavedWord(savedWords[i].word, result[1].word)
           /\ RemoveSavedWord(i, TRUE))
          => UNCHANGED <<noteInput, proficiency>>]_vars

====
